---- MODULE Spec2Model ----
(***************************************************************************)
(* GEMGCN (src/models/gem_gcn.py): a multi-scale gauge-equivariant mesh    *)
(* network.  The module is modelled as the state machine of its forward    *)
(* pass: one action per statement of GEMGCN.forward, the module's          *)
(* construction-time attributes as state, and tensors abstracted to their  *)
(* shape and to the provenance of their value (which operations, in which  *)
(* order and under which parameters, produced them).                       *)
(*                                                                         *)
(* Python sequences are zero-based; TLA+ sequences are one-based.  At(s,i) *)
(* reads Python index i, so the indices written in the actions are the     *)
(* indices written in the source.                                          *)
(***************************************************************************)
EXTENDS Integers, Sequences, FiniteSets, TLC

VARIABLES
    radii,              \* constructor argument radii (kept to state claims about it)
    in_rep,             \* self.in_rep  = (order, channels)
    out_rep,            \* self.out_rep = (order, channels)
    scale_transforms,   \* self.scale_transforms
    blocks,             \* the GemResNetBlock layers, by attribute name
    pools,              \* the ParallelTransportPool layers, by attribute name
    params,             \* version of the learned parameters
    data,               \* the mesh batch of the running forward call
    pc,                 \* position of the running forward call
    x, copy0, copy1,    \* locals of forward
    scale_attr,         \* local of forward, returned by prepare_input
    result,             \* what the call returned or raised
    level,              \* history: resolution level the vertices of x live on
    reads,              \* history: attributes of data read by this call
    trace,              \* history: the stages this call has run, in order
    prePool,            \* history: value of x when each pooling step started
    updated,            \* history: parameters were updated since memo was taken
    memo                \* history: an earlier call's input and result

vars == <<radii, in_rep, out_rep, scale_transforms, blocks, pools, params, data,
          pc, x, copy0, copy1, scale_attr, result, level, reads, trace, prePool,
          updated, memo>>

modvars == <<radii, in_rep, out_rep, scale_transforms, blocks, pools>>

----------------------------------------------------------------------------
(* Bounds of the model. *)

MaxVerts == 3     \* vertices of the finest level: 1..MaxVerts
MaxFeat == 2      \* channels of data.matrix_features: 1..MaxFeat
MaxRadii == 3     \* number of radii given to the constructor: 0..MaxRadii
MaxOut == 2       \* out_rep channels: 1..MaxOut

(* Program constants. *)

channels == 26
max_order == 2

----------------------------------------------------------------------------
(* Tensors and batches. *)

At(s, i) == s[i + 1]

NoTensor == [shape |-> <<>>, val |-> <<>>]

Tensor(n, c, i, v) == [shape |-> <<n, c, i>>, val |-> v]

Irreps(order) == 2 * order + 1

NoBatch == [verts |-> <<>>, F |-> 0, irreps |-> 0, hasCondition |-> FALSE]

NoResult == [kind |-> "none", at |-> "", out |-> NoTensor]

(* A pooling hierarchy: vertex counts of level 0 (all vertices), 1 and 2. *)
Hierarchies ==
    {h \in [1..3 -> 1..MaxVerts] : h[1] >= h[2] /\ h[2] >= h[3]}

Batches ==
    {[verts |-> h, F |-> f, irreps |-> Irreps(max_order), hasCondition |-> c] :
        h \in Hierarchies, f \in 1..MaxFeat, c \in BOOLEAN}

RepeatBatches == {b \in Batches : b.verts[1] = b.verts[3]}

RadiiChoices ==
    {r \in UNION {[1..k -> 1..MaxRadii] : k \in 0..MaxRadii} :
        \A i \in 1..(Len(r) - 1) : r[i] < r[i + 1]}

InChannels == 1..(MaxFeat + 3)

OutChannels == 1..MaxOut

OutOrders == {1}

----------------------------------------------------------------------------
(* GEMGCN.__init__ *)

ScaleTransforms(r) ==
    [i \in 1..Len(r) |-> [mask |-> i - 1, max_r |-> r[i]]]

Block(cin, cout, oin, oout) ==
    [cin |-> cin, cout |-> cout, oin |-> oin, oout |-> oout]

BlockNames ==
    {"conv01", "conv02", "conv11", "conv12", "conv21", "conv22",
     "conv13", "conv14", "conv15", "conv16",
     "conv03", "conv04", "conv05", "conv06"}

(* Variant: conv01 built for the intermediate channel count. *)
BlockTableFixedInput(inr, outr) ==
    [b \in BlockNames |->
        CASE b \in {"conv13", "conv03"} ->
                Block(channels + channels, channels, max_order, max_order)
          [] b = "conv06" -> Block(channels, outr[2], max_order, outr[1])
          [] OTHER -> Block(channels, channels, max_order, max_order)]

(* Variant: conv13 and conv03 built without the skip channels. *)
BlockTableNoSkip(inr, outr) ==
    [b \in BlockNames |->
        CASE b = "conv01" -> Block(inr[2], channels, inr[1], max_order)
          [] b = "conv06" -> Block(channels, outr[2], max_order, outr[1])
          [] OTHER -> Block(channels, channels, max_order, max_order)]

BlockTable(inr, outr) ==
    [b \in BlockNames |->
        CASE b = "conv01" -> Block(inr[2], channels, inr[1], max_order)
          [] b \in {"conv13", "conv03"} ->
                Block(channels + channels, channels, max_order, max_order)
          [] b = "conv06" -> Block(channels, outr[2], max_order, outr[1])
          [] OTHER -> Block(channels, channels, max_order, max_order)]

PoolNames == {"pool1", "pool2", "unpool2", "unpool1"}

(* Variant: the two unpooling layers carry each other's level. *)
PoolTableSwapped ==
    [p \in PoolNames |->
        CASE p = "pool1" -> [lvl |-> 1, unpool |-> FALSE]
          [] p = "pool2" -> [lvl |-> 2, unpool |-> FALSE]
          [] p = "unpool2" -> [lvl |-> 1, unpool |-> TRUE]
          [] p = "unpool1" -> [lvl |-> 2, unpool |-> TRUE]]

PoolTable ==
    [p \in PoolNames |->
        CASE p = "pool1" -> [lvl |-> 1, unpool |-> FALSE]
          [] p = "pool2" -> [lvl |-> 2, unpool |-> FALSE]
          [] p = "unpool2" -> [lvl |-> 2, unpool |-> TRUE]
          [] p = "unpool1" -> [lvl |-> 1, unpool |-> TRUE]]

Construct(r, inr, outr) ==
    /\ radii = r
    /\ in_rep = inr
    /\ out_rep = outr
    /\ scale_transforms = ScaleTransforms(r)
    /\ blocks = BlockTable(inr, outr)
    /\ pools = PoolTable

Idle ==
    /\ params = 0
    /\ data = NoBatch
    /\ pc = "idle"
    /\ x = NoTensor
    /\ copy0 = NoTensor
    /\ copy1 = NoTensor
    /\ scale_attr = <<>>
    /\ result = NoResult
    /\ level = 0
    /\ reads = {}
    /\ trace = <<>>
    /\ prePool = <<NoTensor, NoTensor>>
    /\ updated = FALSE
    /\ memo = [set |-> FALSE, data |-> NoBatch, result |-> NoResult]

Init ==
    /\ \E r \in RadiiChoices, ic \in InChannels, oc \in OutChannels, oo \in OutOrders :
          Construct(r, <<max_order, ic>>, <<oo, oc>>)
    /\ Idle

InitRepeat ==
    /\ \E r \in {q \in RadiiChoices : Len(q) = MaxRadii}, ic \in InChannels,
          oo \in OutOrders :
          Construct(r, <<max_order, ic>>, <<oo, 1>>)
    /\ Idle

----------------------------------------------------------------------------
(* The layers and tensor operations forward calls.  A value's provenance   *)
(* is the sequence of <<operation, parameter version>> that produced it.   *)

(* GemResNetBlock(cin, cout, oin, oout): [N, cin, .] -> [N, cout, 2*oout+1] *)
GemResNetBlock(blk, name, t, p) ==
    Tensor(t.shape[1], blk.cout, Irreps(blk.oout), Append(t.val, <<name, p>>))

(* ParallelTransportPool(lvl, unpool): pooling gives the vertices of level *)
(* lvl, unpooling those of level lvl - 1; channels are kept.               *)
PoolLevel(pl) == IF pl.unpool THEN pl.lvl - 1 ELSE pl.lvl

ParallelTransportPool(pl, name, t, d) ==
    Tensor(At(d.verts, PoolLevel(pl)), t.shape[2], t.shape[3],
           Append(t.val, <<name, 0>>))

(* torch.cat((a, b), dim=1) *)
CatOk(a, b) == a.shape[1] = b.shape[1] /\ a.shape[3] = b.shape[3]

cat(a, b) ==
    Tensor(a.shape[1], a.shape[2] + b.shape[2], a.shape[3],
           a.val \o <<<<"cat", 0>>>> \o b.val)

(* x.clone() *)
clone(t) == [shape |-> t.shape, val |-> t.val]

(* so2_feature_to_ambient_vector: [N, C, .] -> [N, C, 3] *)
so2_feature_to_ambient_vector(t) ==
    Tensor(t.shape[1], t.shape[2], 3, Append(t.val, <<"ambient", 0>>))

(* Tensor.squeeze(): every dimension of size 1 is removed. *)
squeeze(t) ==
    [shape |-> SelectSeq(t.shape, LAMBDA n : n # 1),
     val |-> Append(t.val, <<"squeeze", 0>>)]

(* s(data) for s = Compose([ScaleMask(i), GemPrecomp(.., max_r=r)]), kept   *)
(* as the (edge_index, precomp, connection) triple of that transform.      *)
ApplyTransform(tr, d) == [mask |-> tr.mask, max_r |-> tr.max_r]

Err(kind) == [kind |-> kind, at |-> pc, out |-> NoTensor]

Entry(op, i) ==
    [op |-> op, idx |-> i, lvl |-> level,
     nch |-> IF Len(x.shape) >= 2 THEN x.shape[2] ELSE 0]

----------------------------------------------------------------------------
(* GEMGCN.forward, statement by statement. *)

Call(d) ==
    /\ pc = "idle"
    /\ data' = d
    /\ pc' = "prepare_input"
    /\ UNCHANGED <<modvars, params, x, copy0, copy1, scale_attr, result, level,
                   reads, trace, prePool, updated, memo>>

Forward == \E d \in Batches : Call(d)

ForwardRepeat == \E d \in RepeatBatches : Call(d)

(* Variants of the test on line 83: >= and "exactly one more". *)
wantsConditionGeq(inr, t) == inr[2] >= t.shape[2]

wantsConditionExact(inr, t) == inr[2] = t.shape[2] + 1

wantsCondition(inr, t) == inr[2] > t.shape[2]

PrepareInput ==
    /\ pc = "prepare_input"
    /\ LET N == At(data.verts, 0)
           base == Tensor(N, data.F + 1, data.irreps,
                          <<<<"matrix_features", 0>>, <<"geo", 0>>>>)
           wants == wantsCondition(in_rep, base)
           missing == wants /\ ~data.hasCondition
           full == IF wants
                   THEN Tensor(N, base.shape[2] + 1, data.irreps,
                               Append(base.val, <<"condition", 0>>))
                   ELSE base
       IN  /\ reads' = reads \cup {"matrix_features", "geo"}
                         \cup (IF wants THEN {"condition"} ELSE {})
                         \cup (IF wants /\ ~missing THEN {"batch"} ELSE {})
           /\ trace' = Append(trace, Entry("prepare_input", -1))
           /\ x' = IF missing THEN x ELSE full
           /\ scale_attr' = IF missing THEN scale_attr
                            ELSE [i \in 1..Len(scale_transforms) |->
                                    ApplyTransform(scale_transforms[i], data)]
           /\ pc' = IF missing THEN "raised" ELSE "conv01"
           /\ result' = IF missing THEN Err("AttributeError") ELSE result
    /\ UNCHANGED <<modvars, params, data, copy0, copy1, level, prePool, updated, memo>>

ConvStep(b, i, nxt) ==
    /\ pc = b
    /\ LET noattr == i >= Len(scale_attr)
           badshape == x.shape[2] # blocks[b].cin
           ok == ~noattr /\ ~badshape
       IN  /\ trace' = Append(trace, Entry(b, i))
           /\ x' = IF ok THEN GemResNetBlock(blocks[b], b, x, params) ELSE x
           /\ pc' = IF ok THEN nxt ELSE "raised"
           /\ result' = IF noattr THEN Err("IndexError")
                        ELSE IF badshape THEN Err("ShapeError")
                        ELSE result
    /\ UNCHANGED <<modvars, params, data, copy0, copy1, scale_attr, level, reads,
                   prePool, updated, memo>>

PoolStep(p, nxt) ==
    /\ pc = p
    /\ trace' = Append(trace, Entry(p, -1))
    /\ prePool' = IF pools[p].unpool THEN prePool
                  ELSE [prePool EXCEPT ![pools[p].lvl] = x]
    /\ x' = ParallelTransportPool(pools[p], p, x, data)
    /\ level' = PoolLevel(pools[p])
    /\ pc' = nxt
    /\ UNCHANGED <<modvars, params, data, copy0, copy1, scale_attr, result, reads,
                   updated, memo>>

CatStep(c, skip, nxt) ==
    /\ pc = c
    /\ trace' = Append(trace, Entry(c, -1))
    /\ x' = IF CatOk(x, skip) THEN cat(x, skip) ELSE x
    /\ pc' = IF CatOk(x, skip) THEN nxt ELSE "raised"
    /\ result' = IF CatOk(x, skip) THEN result ELSE Err("ShapeError")
    /\ UNCHANGED <<modvars, params, data, copy0, copy1, scale_attr, level, reads,
                   prePool, updated, memo>>

Conv01 == ConvStep("conv01", 0, "conv02")

Conv02 == ConvStep("conv02", 0, "clone0")

Clone0 ==
    /\ pc = "clone0"
    /\ trace' = Append(trace, Entry("clone0", -1))
    /\ copy0' = clone(x)
    /\ pc' = "pool1"
    /\ UNCHANGED <<modvars, params, data, x, copy1, scale_attr, result, level,
                   reads, prePool, updated, memo>>

Pool1 == PoolStep("pool1", "conv11")

Conv11 == ConvStep("conv11", 1, "conv12")

Conv12 == ConvStep("conv12", 1, "clone1")

Clone1 ==
    /\ pc = "clone1"
    /\ trace' = Append(trace, Entry("clone1", -1))
    /\ copy1' = clone(x)
    /\ pc' = "pool2"
    /\ UNCHANGED <<modvars, params, data, x, copy0, scale_attr, result, level,
                   reads, prePool, updated, memo>>

Pool2 == PoolStep("pool2", "conv21")

Conv21 == ConvStep("conv21", 2, "conv22")

Conv22 == ConvStep("conv22", 2, "unpool2")

Unpool2 == PoolStep("unpool2", "cat1")

Cat1 == CatStep("cat1", copy1, "conv13")

Conv13 == ConvStep("conv13", 1, "conv14")

(* Variant: conv15 is skipped. *)
Conv14Skipping == ConvStep("conv14", 1, "conv16")

Conv14 == ConvStep("conv14", 1, "conv15")

Conv15 == ConvStep("conv15", 1, "conv16")

(* Variant: conv16 is given the attributes of scale 2. *)
Conv16Coarse == ConvStep("conv16", 2, "unpool1")

Conv16 == ConvStep("conv16", 1, "unpool1")

Unpool1 == PoolStep("unpool1", "cat0")

(* Variant: the outer join concatenates the inner copy. *)
Cat0Inner == CatStep("cat0", copy1, "conv03")

Cat0 == CatStep("cat0", copy0, "conv03")

Conv03 == ConvStep("conv03", 0, "conv04")

Conv04 == ConvStep("conv04", 0, "conv05")

Conv05 == ConvStep("conv05", 0, "conv06")

(* Variant: the last block changes the parameters while it runs. *)
Conv06Updating ==
    /\ pc = "conv06"
    /\ LET noattr == 0 >= Len(scale_attr)
           badshape == x.shape[2] # blocks["conv06"].cin
           ok == ~noattr /\ ~badshape
       IN  /\ trace' = Append(trace, Entry("conv06", 0))
           /\ x' = IF ok THEN GemResNetBlock(blocks["conv06"], "conv06", x, params)
                   ELSE x
           /\ params' = IF ok THEN 1 - params ELSE params
           /\ pc' = IF ok THEN "project" ELSE "raised"
           /\ result' = IF noattr THEN Err("IndexError")
                        ELSE IF badshape THEN Err("ShapeError")
                        ELSE result
    /\ UNCHANGED <<modvars, data, copy0, copy1, scale_attr, level, reads,
                   prePool, updated, memo>>

Conv06 == ConvStep("conv06", 0, "project")

Project ==
    /\ pc = "project"
    /\ trace' = Append(trace, Entry("project", -1))
    /\ reads' = reads \cup {"frame"}
    /\ x' = squeeze(so2_feature_to_ambient_vector(x))
    /\ result' = [kind |-> "value", at |-> "return", out |-> x']
    /\ pc' = "returned"
    /\ UNCHANGED <<modvars, params, data, copy0, copy1, scale_attr, level,
                   prePool, updated, memo>>

(* The call is over (returned or raised): its locals are gone. *)
Leave ==
    /\ pc \in {"returned", "raised"}
    /\ pc' = "idle"
    /\ data' = NoBatch
    /\ x' = NoTensor
    /\ copy0' = NoTensor
    /\ copy1' = NoTensor
    /\ scale_attr' = <<>>
    /\ result' = NoResult
    /\ level' = 0
    /\ reads' = {}
    /\ trace' = <<>>
    /\ prePool' = <<NoTensor, NoTensor>>
    /\ UNCHANGED <<modvars, params>>

Finish == Leave /\ UNCHANGED <<updated, memo>>

FinishRecord ==
    /\ Leave
    /\ memo' = [set |-> TRUE, data |-> data, result |-> result]
    /\ updated' = FALSE

(* An optimizer updates the parameters between two forward calls. *)
OptimizerStep ==
    /\ pc = "idle"
    /\ params' = 1 - params
    /\ updated' = TRUE
    /\ UNCHANGED <<modvars, data, pc, x, copy0, copy1, scale_attr, result, level,
                   reads, trace, prePool, memo>>

Steps ==
    \/ PrepareInput
    \/ Conv01 \/ Conv02
    \/ Clone0 \/ Pool1 \/ Conv11 \/ Conv12
    \/ Clone1 \/ Pool2 \/ Conv21 \/ Conv22
    \/ Unpool2 \/ Cat1 \/ Conv13 \/ Conv14 \/ Conv15 \/ Conv16
    \/ Unpool1 \/ Cat0 \/ Conv03 \/ Conv04 \/ Conv05 \/ Conv06
    \/ Project

Next == Forward \/ Steps \/ Finish

Spec == Init /\ [][Next]_vars

NextRepeat == ForwardRepeat \/ Steps \/ Finish \/ FinishRecord \/ OptimizerStep

SpecRepeat == InitRepeat /\ [][NextRepeat]_vars

----------------------------------------------------------------------------
(* Properties. *)

Running == pc \notin {"idle", "returned", "raised"}

Started == Len(trace) >= 1

Has(op) == \E i \in 1..Len(trace) : trace[i].op = op

Pos(op) == CHOOSE i \in 1..Len(trace) : trace[i].op = op

Count(op) == Cardinality({i \in 1..Len(trace) : trace[i].op = op})

Suffix(s, n) == SubSeq(s, Len(s) - n + 1, Len(s))

StageOrder ==
    <<"prepare_input", "conv01", "conv02",
      "clone0", "pool1", "conv11", "conv12",
      "clone1", "pool2", "conv21", "conv22",
      "unpool2", "cat1", "conv13", "conv14", "conv15", "conv16",
      "unpool1", "cat0", "conv03", "conv04", "conv05", "conv06",
      "project">>

\* C1: the stages a forward call has run are always an initial part of the
\* fixed order prepare_input, conv01, conv02, (copy) pool1, conv11, conv12,
\* (copy) pool2, conv21, conv22, unpool2, cat, conv13..conv16, unpool1, cat,
\* conv03..conv06, projection; the next stage is the next one of that order;
\* a call that returns has run every stage exactly once.
C1_StageOrder ==
    /\ Len(trace) <= Len(StageOrder)
    /\ \A i \in 1..Len(trace) : trace[i].op = StageOrder[i]
    /\ Running => pc = StageOrder[Len(trace) + 1]
    /\ pc = "returned" => Len(trace) = Len(StageOrder)

C1_Witness == pc = "returned" /\ Len(trace) = Len(StageOrder)

JoinedWith(c, un, k) ==
    (Has(c) /\ trace[Len(trace)].op = c /\ pc # "raised") =>
        LET n == Len(prePool[k].val)
        IN  /\ Len(x.val) >= n + 2
            /\ Suffix(x.val, n) = prePool[k].val
            /\ x.val[Len(x.val) - n] = <<"cat", 0>>
            /\ x.val[Len(x.val) - n - 1] = <<un, 0>>

Adjacent(first, second) ==
    \A i \in 1..Len(trace) :
        /\ trace[i].op = second => i > 1 /\ trace[i - 1].op = first
        /\ (trace[i].op = first /\ i < Len(trace)) => trace[i + 1].op = second

\* C2: copy0 is taken right before pool1 and concatenated right after
\* unpool1, copy1 right before pool2 and right after unpool2; copy1's pair
\* lies inside copy0's; each copy is taken and concatenated at most once per
\* call; a copy keeps the value x had when its pooling step started, and
\* that value is what the concatenation appends to the unpooled tensor.
C2_SkipConnections ==
    /\ Adjacent("clone0", "pool1")
    /\ Adjacent("clone1", "pool2")
    /\ Adjacent("unpool2", "cat1")
    /\ Adjacent("unpool1", "cat0")
    /\ \A op \in {"clone0", "clone1", "cat0", "cat1"} : Count(op) <= 1
    /\ Has("clone1") => Has("clone0") /\ Pos("clone0") < Pos("clone1")
    /\ Has("cat1") => Has("clone1") /\ Pos("clone1") < Pos("cat1")
    /\ Has("cat0") => Has("cat1") /\ Pos("cat1") < Pos("cat0")
    /\ Has("pool1") => copy0 = prePool[1]
    /\ Has("pool2") => copy1 = prePool[2]
    /\ JoinedWith("cat1", "unpool2", 2)
    /\ JoinedWith("cat0", "unpool1", 1)

C2_Witness ==
    /\ pc = "conv03"
    /\ data.verts[1] = data.verts[2]
    /\ copy0 # copy1
    /\ Suffix(x.val, Len(copy0.val)) = copy0.val

\* C3: when a skip connection is joined, the unpooled tensor and the copy
\* have the same number of vertices (unpool2's output and copy1, unpool1's
\* output and copy0), so no join fails.
C3_SkipVertexCounts ==
    /\ pc = "cat1" => x.shape[1] = copy1.shape[1]
    /\ pc = "cat0" => x.shape[1] = copy0.shape[1]
    /\ pc = "raised" => result.at \notin {"cat0", "cat1"}

C3_Witness ==
    /\ pc = "cat0"
    /\ data.verts[1] > data.verts[2]
    /\ data.verts[2] > data.verts[3]
    /\ x.shape[1] = data.verts[1]

Base == data.F + 1

\* C4 as claimed: the tensor prepare_input returns has in_rep[1] channels.
C4_Claim == pc = "conv01" => x.shape[2] = in_rep[2]

\* C4: the tensor prepare_input returns holds the matrix features, then the
\* geodesic channel, then (optionally) the condition channel, so it has F+1
\* or F+2 channels, F being the channels of the matrix features; that count
\* is in_rep[1] exactly when in_rep[1] is F+1 or F+2.
C4_AssembledChannels ==
    pc = "conv01" =>
        /\ x.shape[2] \in {Base, Base + 1}
        /\ x.shape[2] = Len(x.val) + data.F - 1
        /\ x.val[1] = <<"matrix_features", 0>>
        /\ x.val[2] = <<"geo", 0>>
        /\ Len(x.val) = 3 => x.val[3] = <<"condition", 0>>
        /\ x.shape[2] = in_rep[2] <=> in_rep[2] \in {Base, Base + 1}

C4_Witness ==
    /\ pc = "conv01"
    /\ in_rep[2] = Base + 1
    /\ x.shape[2] = in_rep[2]
    /\ Len(x.val) = 3

\* C5 as claimed: the condition channel is appended, and data.condition
\* read, only when in_rep[1] is exactly one more than the base channels.
C5_Claim ==
    Started =>
        /\ "condition" \in reads => in_rep[2] = Base + 1
        /\ (pc = "conv01" /\ Len(x.val) = 3) => in_rep[2] = Base + 1

\* C5: the condition channel is appended exactly when in_rep[1] is larger
\* than the base channel count (by one or by more); otherwise it is not
\* appended and data.condition is not read.
C5_ConditionChannel ==
    Started =>
        /\ "condition" \in reads <=> in_rep[2] > Base
        /\ pc = "conv01" => (Len(x.val) = 3 <=> in_rep[2] > Base)
        /\ pc = "conv01" => (x.shape[2] = Base + 1 <=> in_rep[2] > Base)

C5_Witness ==
    /\ pc = "conv01"
    /\ in_rep[2] > Base + 1
    /\ "condition" \in reads
    /\ x.shape[2] = Base + 1

Demanded == in_rep[2] > Base

Assembled == IF Demanded /\ data.hasCondition THEN Base + 1 ELSE Base

FailedAt(kind, stage, n) ==
    /\ pc = "raised"
    /\ result.kind = kind
    /\ result.at = stage
    /\ Len(trace) = n

\* C6 as claimed: whenever the assembled channels differ from in_rep[1],
\* also when the demanded condition attribute is missing, prepare_input
\* completes and the call fails with a shape error at conv01.
C6_Claim ==
    (Started /\ Assembled # in_rep[2]) =>
        pc = "conv01" \/ FailedAt("ShapeError", "conv01", 2)

\* C6: when in_rep[1] demands the condition channel and the batch has no
\* condition attribute, prepare_input itself raises (an attribute error) and
\* no block runs; in every other case prepare_input completes without
\* raising, and the call then fails with a shape error at conv01, before any
\* later stage, exactly when the assembled channels differ from in_rep[1]
\* (a module built with no radius at all fails at conv01's statement with
\* an index error instead, whatever the channels).
C6_MismatchFailure ==
    Started =>
        /\ (Demanded /\ ~data.hasCondition) =>
                FailedAt("AttributeError", "prepare_input", 1) /\ x = NoTensor
        /\ ~(Demanded /\ ~data.hasCondition) =>
                /\ result.at # "prepare_input"
                /\ Len(radii) = 0 =>
                        pc = "conv01" \/ FailedAt("IndexError", "conv01", 2)
                /\ (Len(radii) > 0 /\ Assembled # in_rep[2]) =>
                        pc = "conv01" \/ FailedAt("ShapeError", "conv01", 2)
                /\ (Len(radii) > 0 /\ Assembled = in_rep[2]) =>
                        result.at # "conv01"

C6_Witness ==
    /\ FailedAt("ShapeError", "conv01", 2)
    /\ Assembled # in_rep[2]
    /\ data.hasCondition

LevelOf(b) ==
    CASE b \in {"conv01", "conv02", "conv03", "conv04", "conv05", "conv06"} -> 0
      [] b \in {"conv11", "conv12", "conv13", "conv14", "conv15", "conv16"} -> 1
      [] b \in {"conv21", "conv22"} -> 2

\* C7: scale_transforms[i] is built from ScaleMask(i) and max_r = radii[i];
\* scale_attr has one tuple per radius, the i-th from the i-th transform;
\* every block call uses the scale index of the level x lives on, 0 for
\* conv01..conv06, 1 for conv11..conv16, 2 for conv21 and conv22, and the
\* pooling layers carry the level indices 1 and 2 of those levels.
C7_ScaleIndex ==
    /\ Len(scale_transforms) = Len(radii)
    /\ \A i \in 1..Len(radii) :
          scale_transforms[i].mask = i - 1 /\ scale_transforms[i].max_r = radii[i]
    /\ scale_attr # <<>> =>
          /\ Len(scale_attr) = Len(radii)
          /\ \A i \in 1..Len(radii) :
                scale_attr[i].mask = i - 1 /\ scale_attr[i].max_r = radii[i]
    /\ \A i \in 1..Len(trace) :
          trace[i].op \in BlockNames =>
              trace[i].idx = trace[i].lvl /\ trace[i].idx = LevelOf(trace[i].op)
    /\ pools["pool1"].lvl = 1 /\ pools["unpool1"].lvl = 1
    /\ pools["pool2"].lvl = 2 /\ pools["unpool2"].lvl = 2

C7_Witness ==
    /\ pc = "returned"
    /\ Len(radii) = 3
    /\ trace[Pos("conv16")].idx = 1
    /\ trace[Pos("conv22")].lvl = 2

\* C8 as claimed: the tensor forward returns has shape (N, 3) for every
\* batch of N >= 1 vertices.
C8_Claim == pc = "returned" => result.out.shape = <<At(data.verts, 0), 3>>

C10_BlockChannels ==
    /\ \A i \in 1..Len(trace) :
          (trace[i].op \in BlockNames /\ trace[i].op # "conv01") =>
              /\ trace[i].nch = blocks[trace[i].op].cin
              /\ trace[i].nch = IF trace[i].op \in {"conv13", "conv03"} THEN 52 ELSE 26
    /\ blocks["conv01"].cin = in_rep[2]
    /\ pc = "conv02" => trace[2].nch = in_rep[2] /\ x.shape[2] = 26
    /\ pc = "project" => x.shape[2] = out_rep[2]
    /\ (pc = "raised" /\ result.kind = "ShapeError") => result.at = "conv01"

C10_Witness ==
    /\ pc = "project"
    /\ x.shape[2] = out_rep[2]
    /\ out_rep[2] # 26
    /\ trace[Pos("conv13")].nch = 52

====
